---- MODULE Spec2Model ----
(***************************************************************************)
(* Quiz-attempt lifecycle of the quiz platform backend:                    *)
(* QuizAttemptService (start, save answer, navigate, pause, resume,        *)
(* submit, review flags, suspicious activity, expiry and retention         *)
(* sweeps), the QuizAttempt document methods and the heartbeat handler of  *)
(* QuizAttemptController, over a store of attempt documents.               *)
(***************************************************************************)
EXTENDS Integers, Sequences, FiniteSets, TLC

VARIABLES
    attempts,   \* the quiz_attempts collection: attempt id -> document
    nextId,     \* the next attempt id the store hands out (ids are never reused)
    now,        \* the wall clock, in milliseconds
    ticks,      \* how many times the clock has advanced
    last,       \* the outcome of the last traced service call
    procs,      \* the calls in flight, for the specifications that interleave calls
    results,    \* the quiz_results collection: the stored results, in creation order
    stats       \* the stats of the user documents and of the quiz documents

vars == <<attempts, nextId, now, ticks, last, procs, results, stats>>

----------------------------------------------------------------------------
(* Bounds of the model *)

\* attempt documents ever created in the lifecycle specification
MaxIds == 2
\* attempt documents ever created in the single-attempt specification
MaxDetailIds == 1
\* clock advances in one behaviour
MaxTicks == 1
\* entries of one attempt's suspicious-activity log
MaxLog == 1
\* stored quiz results
MaxResults == 1

----------------------------------------------------------------------------
(* Fixtures: users, quiz definitions, inputs *)

Users == {"u1", "u2"}

NoDate == -1

OneDayMs == 24 * 60 * 60 * 1000

\* the steps the clock advances by: a day and a half second
DaySteps == {OneDayMs + 500}

\* timePerQuestion = 0 stands for "not set" (undefined is falsy like 0)
Quizzes ==
    [q1 |-> [questions |-> 2, timeLimit |-> 1, timePerQuestion |-> 0,
             allowPause |-> TRUE, maxAttempts |-> 2, allowRetake |-> TRUE,
             isActive |-> TRUE, isPublished |-> TRUE,
             availableFrom |-> NoDate, availableTo |-> NoDate,
             accessType |-> "public", allowedUsers |-> {}, blockedUsers |-> {}],
     q2 |-> [questions |-> 1, timeLimit |-> 1, timePerQuestion |-> 10,
             allowPause |-> FALSE, maxAttempts |-> 2, allowRetake |-> FALSE,
             isActive |-> TRUE, isPublished |-> TRUE,
             availableFrom |-> NoDate, availableTo |-> NoDate,
             accessType |-> "public", allowedUsers |-> {}, blockedUsers |-> {}],
     q3 |-> [questions |-> 1, timeLimit |-> 1, timePerQuestion |-> 0,
             allowPause |-> FALSE, maxAttempts |-> 1, allowRetake |-> TRUE,
             isActive |-> TRUE, isPublished |-> FALSE,
             availableFrom |-> NoDate, availableTo |-> NoDate,
             accessType |-> "public", allowedUsers |-> {}, blockedUsers |-> {}],
     q4 |-> [questions |-> 1, timeLimit |-> 1, timePerQuestion |-> 0,
             allowPause |-> FALSE, maxAttempts |-> 1, allowRetake |-> TRUE,
             isActive |-> TRUE, isPublished |-> TRUE,
             availableFrom |-> NoDate, availableTo |-> NoDate,
             accessType |-> "private", allowedUsers |-> {}, blockedUsers |-> {"u2"}]]

\* quiz ids a caller may pass; "q0" names no stored quiz
QuizIdInputs == DOMAIN Quizzes \cup {"q0"}

\* Quiz.findById: the stored quiz, or the null quiz (no id names it) when absent
NullQuiz == [Quizzes["q3"] EXCEPT !.questions = 0, !.isActive = FALSE]

QuizFindById(q) == IF q \in DOMAIN Quizzes THEN Quizzes[q] ELSE NullQuiz

----------------------------------------------------------------------------
(* Quiz document methods *)

isAvailableNow(quiz, t) ==
    IF ~quiz.isActive \/ ~quiz.isPublished THEN FALSE
    ELSE IF quiz.availableFrom # NoDate /\ t < quiz.availableFrom THEN FALSE
    ELSE IF quiz.availableTo # NoDate /\ t > quiz.availableTo THEN FALSE
    ELSE TRUE

canUserAccess(quiz, userId) ==
    IF userId \in quiz.blockedUsers THEN FALSE
    ELSE IF quiz.accessType = "private" THEN userId \in quiz.allowedUsers
    ELSE IF quiz.accessType = "invitation" THEN userId \in quiz.allowedUsers
    ELSE TRUE

\* canUserRetake without the allowRetake branch
canUserRetakeIgnoresAllowRetake(quiz, attemptCount) ==
    attemptCount < quiz.maxAttempts

canUserRetake(quiz, attemptCount) ==
    IF ~quiz.allowRetake THEN attemptCount = 0
    ELSE attemptCount < quiz.maxAttempts

\* the time budget without the timePerQuestion branch
TimeBudgetFromTimeLimitOnly(quiz) == quiz.timeLimit * 60

\* the time budget in seconds, as startQuizAttempt computes it
TimeBudget(quiz) ==
    IF quiz.timePerQuestion # 0
    THEN quiz.timePerQuestion * quiz.questions
    ELSE quiz.timeLimit * 60

----------------------------------------------------------------------------
(* The attempt store *)

\* the values the schema's status enum admits
StatusEnum ==
    {"started", "in_progress", "paused", "completed", "submitted", "abandoned", "expired"}

Incomplete == {"started", "in_progress", "paused"}

Ids == DOMAIN attempts

\* BaseService.count({userId, quizId})
Count(store, userId, quizId) ==
    Cardinality({i \in DOMAIN store :
                    store[i].userId = userId /\ store[i].quizId = quizId})

IncompleteIdsWithoutStarted(store, userId, quizId) ==
    {i \in DOMAIN store :
        /\ store[i].userId = userId
        /\ store[i].quizId = quizId
        /\ store[i].status \in {"in_progress", "paused"}}

\* the documents findOne({userId, quizId, status in incomplete}) may return
IncompleteIds(store, userId, quizId) ==
    {i \in DOMAIN store :
        /\ store[i].userId = userId
        /\ store[i].quizId = quizId
        /\ store[i].status \in Incomplete}

\* the document startQuizAttempt creates
NewAttempt(userId, quizId, quiz, existingAttempts, t) ==
    [userId |-> userId,
     quizId |-> quizId,
     attemptNumber |-> existingAttempts + 1,
     status |-> "started",
     startedAt |-> t,
     lastActiveAt |-> t,
     pausedAt |-> NoDate,
     completedAt |-> NoDate,
     timeSpent |-> 0,
     remainingTime |-> TimeBudget(quiz),
     currentQuestionIndex |-> 0,
     totalQuestions |-> quiz.questions,
     answeredQuestions |-> <<>>,
     flaggedQuestions |-> <<>>,
     skippedQuestions |-> <<>>,
     currentAnswers |-> <<>>,
     tabSwitchCount |-> 0,
     suspiciousActivity |-> <<>>]

\* insert a document under a fresh id
Insert(store, id, doc) ==
    [i \in DOMAIN store \cup {id} |-> IF i = id THEN doc ELSE store[i]]

\* schema validation run by document.save(): the status must be in the enum
SchemaValid(doc) == doc.status \in StatusEnum

\* the pre-save hook: a changed answer map or question index refreshes lastActiveAt
PreSave(old, doc, t) ==
    IF doc.currentAnswers # old.currentAnswers
       \/ doc.currentQuestionIndex # old.currentQuestionIndex
    THEN [doc EXCEPT !.lastActiveAt = t]
    ELSE doc

----------------------------------------------------------------------------
(* QuizAttempt document methods *)

Range(seq) == {seq[k] : k \in 1..Len(seq)}

\* Array.prototype.includes
Includes(seq, x) == x \in Range(seq)

\* Array.prototype.filter((index) => index !== x)
FilterOut(seq, x) == SelectSeq(seq, LAMBDA e : e # x)

\* the answer map is keyed by questionIndex.toString(); decimal printing of an
\* integer is one-to-one, so the key is written as the index itself
HasAnswer(doc, questionIndex) == questionIndex \in DOMAIN doc.currentAnswers

PutAnswer(answers, questionIndex, entry) ==
    [k \in DOMAIN answers \cup {questionIndex} |->
        IF k = questionIndex THEN entry ELSE answers[k]]

\* selectedAnswer of an entry created and not yet written (undefined)
NoAnswer == -1

pause(doc, t) ==
    IF doc.status = "in_progress"
    THEN [doc EXCEPT !.status = "paused", !.pausedAt = t]
    ELSE doc

resumeKeepsPausedAt(doc, t) ==
    IF doc.status = "paused"
    THEN [doc EXCEPT !.status = "in_progress", !.lastActiveAt = t]
    ELSE doc

resume(doc, t) ==
    IF doc.status = "paused"
    THEN [doc EXCEPT !.status = "in_progress", !.lastActiveAt = t, !.pausedAt = NoDate]
    ELSE doc

markQuestionForReview(doc, questionIndex) ==
    IF ~Includes(doc.flaggedQuestions, questionIndex)
    THEN [doc EXCEPT !.flaggedQuestions = Append(@, questionIndex)]
    ELSE doc

unmarkQuestionForReview(doc, questionIndex) ==
    [doc EXCEPT !.flaggedQuestions = FilterOut(@, questionIndex)]

saveAnswerAlwaysPushes(doc, questionIndex, answer, t) ==
    LET entry == IF HasAnswer(doc, questionIndex)
                 THEN doc.currentAnswers[questionIndex]
                 ELSE [selectedAnswer |-> NoAnswer, timeSpent |-> 0,
                       isMarkedForReview |-> FALSE, lastModified |-> t]
        written == [entry EXCEPT !.selectedAnswer = answer, !.lastModified = t]
    IN [doc EXCEPT
          !.currentAnswers = PutAnswer(@, questionIndex, written),
          !.answeredQuestions = Append(@, questionIndex),
          !.skippedQuestions = FilterOut(@, questionIndex),
          !.lastActiveAt = t]

saveAnswer(doc, questionIndex, answer, t) ==
    LET entry == IF HasAnswer(doc, questionIndex)
                 THEN doc.currentAnswers[questionIndex]
                 ELSE [selectedAnswer |-> NoAnswer, timeSpent |-> 0,
                       isMarkedForReview |-> FALSE, lastModified |-> t]
        written == [entry EXCEPT !.selectedAnswer = answer, !.lastModified = t]
    IN [doc EXCEPT
          !.currentAnswers = PutAnswer(@, questionIndex, written),
          !.answeredQuestions = IF Includes(@, questionIndex) THEN @
                                ELSE Append(@, questionIndex),
          !.skippedQuestions = FilterOut(@, questionIndex),
          !.lastActiveAt = t]

addSuspiciousActivity(doc, type, t) ==
    [doc EXCEPT
        !.suspiciousActivity = Append(@, [type |-> type, timestamp |-> t]),
        !.tabSwitchCount = IF type = "tab_switch" THEN @ + 1 ELSE @]

----------------------------------------------------------------------------
(* Results of a service call: the store after the call and its outcome       *)

\* the id of no attempt
NoId == 0

Ok(op, id) == [op |-> op, id |-> id, kind |-> "ok", message |-> ""]
Err(op, id, kind, message) == [op |-> op, id |-> id, kind |-> kind, message |-> message]

\* a call that throws before writing
Throw(store, out) == [store |-> store, out |-> out]

\* BaseService.findByIdOrThrow on an absent id
NotFound(store, op, id) == Throw(store, Err(op, id, "NotFoundError", "QuizAttempt not found"))

\* throw new ValidationError(message)
Reject(store, op, id, message) == Throw(store, Err(op, id, "ValidationError", message))

\* document.save() of a document read as `loaded` and changed in memory to
\* `doc`: validate, run the pre-save hook, write
SaveFrom(store, op, id, loaded, doc, t) ==
    IF SchemaValid(doc)
    THEN [store |-> [store EXCEPT ![id] = PreSave(loaded, doc, t)], out |-> Ok(op, id)]
    ELSE Throw(store, Err(op, id, "MongooseValidationError",
                          "status is not a valid enum value"))

\* document.save() when nothing wrote the document since it was read
Save(store, op, id, doc, t) == SaveFrom(store, op, id, store[id], doc, t)

----------------------------------------------------------------------------
(* QuizAttemptService and the heartbeat handler, each call run atomically on *)
(* the store at time t                                                       *)

\* the status checks the calls open with
InactiveForAnswerAcceptsPaused(status) ==
    status # "in_progress" /\ status # "started" /\ status # "paused"

InactiveForAnswer(status) == status # "in_progress" /\ status # "started"

InactiveForNavigationAcceptsStarted(status) == status # "in_progress" /\ status # "started"

InactiveForNavigation(status) == status # "in_progress"

InvalidQuestionIndexOffByOne(questionIndex, totalQuestions) ==
    questionIndex < 0 \/ questionIndex > totalQuestions

InvalidQuestionIndex(questionIndex, totalQuestions) ==
    questionIndex < 0 \/ questionIndex >= totalQuestions

AlreadySubmittedChecksSubmittedOnly(status) == status = "submitted"

AlreadySubmitted(status) == status = "completed" \/ status = "submitted"

\* findOne returns the first matching document
FindOne(ids) == IF ids = {} THEN NoId ELSE CHOOSE i \in ids : \A j \in ids : i <= j

\* nid is the id the store gives the next created document
startQuizAttempt(store, nid, userId, quizId, t) ==
    LET quiz == QuizFindById(quizId)
        existingAttempts == Count(store, userId, quizId)
        incompleteAttempt == FindOne(IncompleteIds(store, userId, quizId))
    IN IF quiz = NullQuiz
       THEN Throw(store, Err("start", NoId, "NotFoundError", "Quiz not found"))
       ELSE IF ~isAvailableNow(quiz, t)
       THEN Throw(store, Err("start", NoId, "ValidationError", "Quiz is not available"))
       ELSE IF ~canUserAccess(quiz, userId)
       THEN Throw(store, Err("start", NoId, "AuthorizationError",
                             "You don't have access to this quiz"))
       ELSE IF ~canUserRetake(quiz, existingAttempts)
       THEN Throw(store, Err("start", NoId, "ValidationError",
                             "Maximum attempts reached for this quiz"))
       ELSE IF incompleteAttempt # NoId
       THEN Save(store, "start", incompleteAttempt,
                 [store[incompleteAttempt] EXCEPT !.status = "in_progress",
                                                  !.lastActiveAt = t], t)
       ELSE [store |-> Insert(store, nid,
                              NewAttempt(userId, quizId, quiz, existingAttempts, t)),
             out |-> Ok("start", nid)]

\* what QuizAttemptService.saveAnswer does to the loaded document in memory
AnswerInMemory(attempt, questionIndex, answer, timeSpent, t) ==
    LET promoted == IF attempt.status = "started"
                    THEN [attempt EXCEPT !.status = "in_progress"]
                    ELSE attempt
        saved == saveAnswer(promoted, questionIndex, answer, t)
    IN IF HasAnswer(saved, questionIndex)
       THEN [saved EXCEPT !.currentAnswers[questionIndex].timeSpent = timeSpent]
       ELSE saved

saveAnswerCall(store, id, questionIndex, answer, timeSpent, t) ==
    IF id \notin DOMAIN store THEN NotFound(store, "saveAnswer", id)
    ELSE LET attempt == store[id]
         IN IF InactiveForAnswer(attempt.status)
            THEN Reject(store, "saveAnswer", id, "Cannot save answer for inactive attempt")
            ELSE Save(store, "saveAnswer", id,
                      AnswerInMemory(attempt, questionIndex, answer, timeSpent, t), t)

\* navigateToQuestion writing the index before it checks it
navigateToQuestionWritesFirst(store, id, questionIndex, t) ==
    IF id \notin DOMAIN store THEN NotFound(store, "navigate", id)
    ELSE LET attempt == store[id]
             written == Save(store, "navigate", id,
                             [attempt EXCEPT !.currentQuestionIndex = questionIndex,
                                             !.lastActiveAt = t], t)
         IN IF InactiveForNavigation(attempt.status)
            THEN Reject(store, "navigate", id, "Cannot navigate in inactive attempt")
            ELSE IF InvalidQuestionIndex(questionIndex, attempt.totalQuestions)
            THEN Reject(written.store, "navigate", id, "Invalid question index")
            ELSE written

navigateToQuestion(store, id, questionIndex, t) ==
    IF id \notin DOMAIN store THEN NotFound(store, "navigate", id)
    ELSE LET attempt == store[id]
         IN IF InactiveForNavigation(attempt.status)
            THEN Reject(store, "navigate", id, "Cannot navigate in inactive attempt")
            ELSE IF InvalidQuestionIndex(questionIndex, attempt.totalQuestions)
            THEN Reject(store, "navigate", id, "Invalid question index")
            ELSE Save(store, "navigate", id,
                      [attempt EXCEPT !.currentQuestionIndex = questionIndex,
                                      !.lastActiveAt = t], t)

PausingNotAllowedIgnoresFlag(quiz) == quiz = NullQuiz

\* !quiz?.allowPause
PausingNotAllowed(quiz) == quiz = NullQuiz \/ ~quiz.allowPause

pauseAttempt(store, id, t) ==
    IF id \notin DOMAIN store THEN NotFound(store, "pause", id)
    ELSE LET attempt == store[id]
             quiz == QuizFindById(attempt.quizId)
         IN IF PausingNotAllowed(quiz)
            THEN Reject(store, "pause", id, "Pausing is not allowed for this quiz")
            ELSE Save(store, "pause", id, pause(attempt, t), t)

resumeAttempt(store, id, t) ==
    IF id \notin DOMAIN store THEN NotFound(store, "resume", id)
    ELSE Save(store, "resume", id, resume(store[id], t), t)

\* Math.floor(totalTime / 1000)
WholeSeconds(ms) == ms \div 1000

submitAttempt(store, id, t) ==
    IF id \notin DOMAIN store THEN NotFound(store, "submit", id)
    ELSE LET attempt == store[id]
         IN IF AlreadySubmitted(attempt.status)
            THEN Reject(store, "submit", id, "Attempt already submitted")
            ELSE Save(store, "submit", id,
                      [attempt EXCEPT !.status = "completed",
                                      !.lastActiveAt = t,
                                      !.timeSpent = WholeSeconds(t - attempt.startedAt)], t)

markForReview(store, id, questionIndex, t) ==
    IF id \notin DOMAIN store THEN NotFound(store, "markForReview", id)
    ELSE Save(store, "markForReview", id, markQuestionForReview(store[id], questionIndex), t)

unmarkForReview(store, id, questionIndex, t) ==
    IF id \notin DOMAIN store THEN NotFound(store, "unmarkForReview", id)
    ELSE Save(store, "unmarkForReview", id,
              unmarkQuestionForReview(store[id], questionIndex), t)

recordSuspiciousActivity(store, id, activityType, t) ==
    IF id \notin DOMAIN store THEN NotFound(store, "recordActivity", id)
    ELSE Save(store, "recordActivity", id,
              addSuspiciousActivity(store[id], activityType, t), t)

\* QuizAttemptController.updateProgress, the heartbeat
updateProgress(store, id, timeSpent, remainingTime, t) ==
    IF id \notin DOMAIN store THEN NotFound(store, "updateProgress", id)
    ELSE Save(store, "updateProgress", id,
              [store[id] EXCEPT !.timeSpent = timeSpent,
                                !.remainingTime = remainingTime,
                                !.lastActiveAt = t], t)

----------------------------------------------------------------------------
(* The sweeps *)

\* What the aggregation makes of "$quiz.questions.length".  The source writes
\* it as the number of questions ("length").  MongoDB resolves a field path
\* through an array of documents to the array of that field's values ("array"),
\* which $multiply rejects, failing the whole aggregation.  Both are kept.
PathReadings == {"length", "array"}

\* the $addFields stage under the "length" reading: the time limit in seconds
SweepTimeLimit(quiz) ==
    IF quiz.timePerQuestion > 0
    THEN quiz.timePerQuestion * quiz.questions
    ELSE quiz.timeLimit * 60

\* the aggregation: attempts in started/in_progress, joined with their quiz,
\* whose age in milliseconds exceeds the limit
Overdue(store, t) ==
    {i \in DOMAIN store :
        /\ store[i].status \in {"started", "in_progress"}
        /\ store[i].quizId \in DOMAIN Quizzes
        /\ t - store[i].startedAt > SweepTimeLimit(Quizzes[store[i].quizId]) * 1000}

\* updateMany replacing the progress of the documents it marks
UpdateManyResettingProgress(store, ids, t) ==
    [i \in DOMAIN store |->
        IF i \in ids
        THEN [store[i] EXCEPT !.status = "time_expired", !.lastActiveAt = t,
                              !.currentAnswers = <<>>, !.answeredQuestions = <<>>]
        ELSE store[i]]

\* updateMany({_id in ids}, {status, lastActiveAt}): no schema validation runs
UpdateMany(store, ids, t) ==
    [i \in DOMAIN store |->
        IF i \in ids
        THEN [store[i] EXCEPT !.status = "time_expired", !.lastActiveAt = t]
        ELSE store[i]]

\* $addFields runs on every started/in_progress attempt joined with its quiz;
\* under the "array" reading it fails on one whose quiz sets timePerQuestion
SweepFails(store, reading) ==
    /\ reading = "array"
    /\ \E i \in DOMAIN store :
          /\ store[i].status \in {"started", "in_progress"}
          /\ store[i].quizId \in DOMAIN Quizzes
          /\ Quizzes[store[i].quizId].timePerQuestion > 0

expireOverdueAttempts(store, t, reading) ==
    IF SweepFails(store, reading)
    THEN Throw(store, Err("expireOverdue", NoId, "MongoServerError",
                          "$multiply only supports numeric types"))
    ELSE [store |-> UpdateMany(store, Overdue(store, t), t),
          out |-> Ok("expireOverdue", NoId)]

\* the filter of deleteMany taking in the attempts started exactly one day ago
AbandonedFromOneDay(store, t) ==
    {i \in DOMAIN store :
        /\ store[i].status \in {"started", "abandoned"}
        /\ store[i].startedAt <= t - OneDayMs}

\* the filter of deleteMany: started/abandoned and started more than one day ago
Abandoned(store, t) ==
    {i \in DOMAIN store :
        /\ store[i].status \in {"started", "abandoned"}
        /\ store[i].startedAt < t - OneDayMs}

cleanAbandonedAttempts(store, t) ==
    [store |-> [i \in DOMAIN store \ Abandoned(store, t) |-> store[i]],
     out |-> Ok("cleanAbandoned", NoId)]

----------------------------------------------------------------------------
(* Actions: a call applied to the store.  Silent calls leave the recorded    *)
(* outcome alone; traced calls record it in last.                            *)

Silent(r) ==
    /\ attempts' = r.store
    /\ UNCHANGED <<now, ticks, last, procs, results, stats>>

Traced(r) ==
    /\ attempts' = r.store
    /\ last' = r.out
    /\ UNCHANGED <<now, ticks, procs, results, stats>>

\* a start creates a document when its result names the fresh id
Created(r) == r.out.kind = "ok" /\ r.out.id = nextId

StartAttempt(userId, quizId, cap) ==
    LET r == startQuizAttempt(attempts, nextId, userId, quizId, now)
    IN /\ Created(r) => nextId <= cap
       /\ nextId' = IF Created(r) THEN nextId + 1 ELSE nextId
       /\ Silent(r)

TracedStartAttempt(userId, quizId, cap) ==
    LET r == startQuizAttempt(attempts, nextId, userId, quizId, now)
    IN /\ Created(r) => nextId <= cap
       /\ nextId' = IF Created(r) THEN nextId + 1 ELSE nextId
       /\ Traced(r)

Tick(d) ==
    /\ ticks < MaxTicks
    /\ now' = now + d
    /\ ticks' = ticks + 1
    /\ UNCHANGED <<attempts, nextId, last, procs, results, stats>>

\* two requests may be in flight at once
Procs == {"p1", "p2"}

\* the stats a user document and a quiz document start with.  An average is
\* kept as its total: averageScore x totalQuizzesTaken is scoreTotal.
NoUserStats == [totalQuizzesTaken |-> 0, scoreTotal |-> 0, totalTimeSpent |-> 0]

NoQuizStats ==
    [totalAttempts |-> 0, completedAttempts |-> 0, scoreTotal |-> 0, timeTotal |-> 0,
     passedAttempts |-> 0]

NoStats ==
    [user |-> [u \in Users |-> NoUserStats], quiz |-> [q \in DOMAIN Quizzes |-> NoQuizStats]]

Idle == [pc |-> "idle"]

Init ==
    /\ attempts = <<>>
    /\ nextId = 1
    /\ now = 0
    /\ ticks = 0
    /\ last = Ok("init", NoId)
    /\ procs = [p \in Procs |-> Idle]
    /\ results = <<>>
    /\ stats = NoStats

----------------------------------------------------------------------------
(* The lifecycle specification: every user and quiz, several attempts, each  *)
(* call atomic, outcomes not recorded                                        *)

IdInputs == 1..MaxIds

SaveAnswer(id, questionIndex, answer, timeSpent) ==
    Silent(saveAnswerCall(attempts, id, questionIndex, answer, timeSpent, now))
    /\ UNCHANGED nextId
Navigate(id, questionIndex) ==
    Silent(navigateToQuestion(attempts, id, questionIndex, now)) /\ UNCHANGED nextId
Pause(id) == Silent(pauseAttempt(attempts, id, now)) /\ UNCHANGED nextId
Resume(id) == Silent(resumeAttempt(attempts, id, now)) /\ UNCHANGED nextId
SubmitAttempt(id) == Silent(submitAttempt(attempts, id, now)) /\ UNCHANGED nextId
UpdateProgress(id, timeSpent, remainingTime) ==
    Silent(updateProgress(attempts, id, timeSpent, remainingTime, now)) /\ UNCHANGED nextId
ExpirySweep ==
    \E reading \in PathReadings :
        Silent(expireOverdueAttempts(attempts, now, reading)) /\ UNCHANGED nextId
RetentionSweep == Silent(cleanAbandonedAttempts(attempts, now)) /\ UNCHANGED nextId

Next ==
    \/ \E u \in Users, q \in QuizIdInputs : StartAttempt(u, q, MaxIds)
    \/ \E id \in IdInputs : SaveAnswer(id, 0, 1, 3)
    \/ \E id \in IdInputs : Navigate(id, 1)
    \/ \E id \in IdInputs : Pause(id)
    \/ \E id \in IdInputs : Resume(id)
    \/ \E id \in IdInputs : SubmitAttempt(id)
    \/ \E id \in IdInputs : UpdateProgress(id, 0, 60)
    \/ ExpirySweep
    \/ RetentionSweep
    \/ \E d \in DaySteps : Tick(d)

Spec == Init /\ [][Next]_vars

NonTerminal == {"started", "in_progress", "paused"}
Terminal == {"completed", "submitted", "expired", "time_expired", "abandoned"}

\* the stored attempts of a user for a quiz that are in a non-terminal status
ActiveOf(userId, quizId) ==
    {i \in Ids : /\ attempts[i].userId = userId
                 /\ attempts[i].quizId = quizId
                 /\ attempts[i].status \in NonTerminal}

\* C1: in every reachable state of the atomic calls, every (user, quiz) pair
\* has at most one stored attempt in started, in_progress or paused.
C1_OneActiveAttemptPerUserQuiz ==
    \A u \in Users, q \in DOMAIN Quizzes : Cardinality(ActiveOf(u, q)) <= 1

\* a user holds two attempts of one quiz: an ended one and a live one
C1_Witness ==
    \E i, j \in Ids :
        /\ i # j
        /\ attempts[i].userId = attempts[j].userId
        /\ attempts[i].quizId = attempts[j].quizId
        /\ attempts[i].status \in Terminal
        /\ attempts[j].status \in NonTerminal

\* C2: whenever the user has a non-terminal attempt of an available and
\* accessible quiz, StartAttempt succeeds, returns that attempt with status
\* in_progress and creates no record, whatever the retake policy.
C2_StartReturnsActiveAttempt ==
    \A u \in Users, q \in DOMAIN Quizzes :
        LET r == startQuizAttempt(attempts, nextId, u, q, now)
        IN (/\ ActiveOf(u, q) # {}
            /\ isAvailableNow(Quizzes[q], now)
            /\ canUserAccess(Quizzes[q], u))
           => /\ r.out.kind = "ok"
              /\ r.out.id \in ActiveOf(u, q)
              /\ r.store[r.out.id].status = "in_progress"
              /\ DOMAIN r.store = DOMAIN attempts

----------------------------------------------------------------------------
(* The single-attempt specification: one user, every call of the attempt     *)
(* state machine with all its inputs, outcomes recorded in last              *)

\* one id more than the store can hold: a call may name an absent attempt
DetailIdInputs == 1..(MaxDetailIds + 1)
SaveIndexInputs == 0..1
NavigateIndexInputs == -1..2
AnswerInputs == {0, 1}
ActivityTypes == {"tab_switch", "copy_paste"}

TracedSaveAnswer(id, questionIndex, answer, timeSpent) ==
    Traced(saveAnswerCall(attempts, id, questionIndex, answer, timeSpent, now))
    /\ UNCHANGED nextId
TracedNavigate(id, questionIndex) ==
    Traced(navigateToQuestion(attempts, id, questionIndex, now)) /\ UNCHANGED nextId
TracedPause(id) == Traced(pauseAttempt(attempts, id, now)) /\ UNCHANGED nextId
TracedResume(id) == Traced(resumeAttempt(attempts, id, now)) /\ UNCHANGED nextId
TracedSubmitAttempt(id) == Traced(submitAttempt(attempts, id, now)) /\ UNCHANGED nextId
TracedMarkForReview(id, questionIndex) ==
    Traced(markForReview(attempts, id, questionIndex, now)) /\ UNCHANGED nextId
TracedUnmarkForReview(id, questionIndex) ==
    Traced(unmarkForReview(attempts, id, questionIndex, now)) /\ UNCHANGED nextId
TracedRecordSuspiciousActivity(id, activityType) ==
    /\ id \in Ids => Len(attempts[id].suspiciousActivity) < MaxLog
    /\ Traced(recordSuspiciousActivity(attempts, id, activityType, now))
    /\ UNCHANGED nextId
TracedUpdateProgress(id, timeSpent, remainingTime) ==
    Traced(updateProgress(attempts, id, timeSpent, remainingTime, now)) /\ UNCHANGED nextId
TracedExpirySweep ==
    \E reading \in PathReadings :
        Traced(expireOverdueAttempts(attempts, now, reading)) /\ UNCHANGED nextId

\* every call of the state machine, with one answer and one target question
NextAttempt ==
    \/ \E q \in {"q1", "q2"} : TracedStartAttempt("u1", q, MaxDetailIds)
    \/ \E id \in DetailIdInputs : TracedSaveAnswer(id, 0, 1, 3)
    \/ \E id \in DetailIdInputs : TracedNavigate(id, 1)
    \/ \E id \in DetailIdInputs : TracedPause(id)
    \/ \E id \in DetailIdInputs : TracedResume(id)
    \/ \E id \in DetailIdInputs : TracedSubmitAttempt(id)
    \/ \E id \in DetailIdInputs : TracedMarkForReview(id, 0)
    \/ \E id \in DetailIdInputs : TracedUnmarkForReview(id, 0)
    \/ \E id \in DetailIdInputs, type \in ActivityTypes :
          TracedRecordSuspiciousActivity(id, type)
    \/ \E id \in DetailIdInputs : TracedUpdateProgress(id, 3, 7)
    \/ TracedExpirySweep
    \/ \E d \in DaySteps : Tick(d)

SpecAttempt == Init /\ [][NextAttempt]_vars

\* C4: terminal statuses are absorbing: once an attempt is completed,
\* submitted, expired, time_expired or abandoned, no call changes its status.
C4_TerminalStatusAbsorbing ==
    [][\A id \in Ids :
          (attempts[id].status \in Terminal /\ id \in DOMAIN attempts')
          => attempts'[id].status = attempts[id].status]_vars

\* C5: SubmitAttempt on a completed or submitted attempt fails with the
\* already-submitted error and leaves the record unchanged, and the attempt
\* stays submitted under every call, so at most one SubmitAttempt per
\* attempt succeeds.
C5_SubmitOnlyOnce ==
    [][\A id \in Ids :
          attempts[id].status \in {"completed", "submitted"}
          => /\ submitAttempt(attempts, id, now)
                  = [store |-> attempts,
                     out |-> Err("submit", id, "ValidationError",
                                 "Attempt already submitted")]
             /\ id \in DOMAIN attempts'
             /\ attempts'[id].status \in {"completed", "submitted"}
             /\ (last'.op = "submit" /\ last'.id = id) => attempts' = attempts]_vars

\* a second SubmitAttempt has been rejected on a completed attempt
C5_Witness ==
    /\ last.op = "submit"
    /\ last.kind = "ValidationError"
    /\ last.message = "Attempt already submitted"
    /\ last.id \in Ids
    /\ attempts[last.id].status = "completed"

----------------------------------------------------------------------------
(* The answering specification: one attempt, answers and navigation with     *)
(* all their inputs, and the calls that change the status                    *)

NextAnswers ==
    \/ \E q \in {"q1", "q2"} : TracedStartAttempt("u1", q, MaxDetailIds)
    \/ \E id \in DetailIdInputs, i \in SaveIndexInputs, a \in AnswerInputs :
          TracedSaveAnswer(id, i, a, 3)
    \/ \E id \in DetailIdInputs, i \in NavigateIndexInputs : TracedNavigate(id, i)
    \/ \E id \in DetailIdInputs : TracedPause(id)
    \/ \E id \in DetailIdInputs : TracedResume(id)
    \/ \E id \in DetailIdInputs : TracedSubmitAttempt(id)
    \/ TracedExpirySweep
    \/ \E d \in DaySteps : Tick(d)

SpecAnswers == Init /\ [][NextAnswers]_vars

\* how many times x occurs in a sequence
Occurrences(seq, x) == Cardinality({k \in 1..Len(seq) : seq[k] = x})

C7_SaveAnswerOnlyWhenActive ==
    \A id \in Ids, i \in SaveIndexInputs, a \in AnswerInputs :
        LET r == saveAnswerCall(attempts, id, i, a, 3, now)
        IN IF attempts[id].status \in {"started", "in_progress"}
           THEN /\ r.out.kind = "ok"
                /\ r.store[id].status = "in_progress"
           ELSE /\ r.out = Err("saveAnswer", id, "ValidationError",
                               "Cannot save answer for inactive attempt")
                /\ r.store = attempts

\* a SaveAnswer has been rejected on a paused attempt
C7_Witness ==
    /\ last.op = "saveAnswer"
    /\ last.kind = "ValidationError"
    /\ last.id \in Ids
    /\ attempts[last.id].status = "paused"

\* C9: for every quiz size, Navigate with an index below 0 or not below
\* totalQuestions fails with a validation error and leaves the current
\* question index alone, so the index stays within [0, totalQuestions).
C9_NavigateRejectsOutOfRange ==
    \A id \in Ids :
        /\ \A i \in NavigateIndexInputs :
              LET r == navigateToQuestion(attempts, id, i, now)
              IN (i < 0 \/ i >= attempts[id].totalQuestions)
                 => /\ r.out.kind = "ValidationError"
                    /\ r.store[id].currentQuestionIndex = attempts[id].currentQuestionIndex
        /\ attempts[id].currentQuestionIndex >= 0
        /\ attempts[id].currentQuestionIndex < attempts[id].totalQuestions

\* Navigate to index 1 has been rejected on a running attempt of a one-question quiz
C9_Witness ==
    /\ last.op = "navigate"
    /\ last.message = "Invalid question index"
    /\ last.id \in Ids
    /\ attempts[last.id].totalQuestions = 1
    /\ attempts[last.id].status = "in_progress"

\* C10: Navigate succeeds only from in_progress; from any other status it
\* fails with the inactive-attempt error and changes nothing; on success it
\* changes the current question index and lastActiveAt only.
C10_NavigateOnlyInProgress ==
    \A id \in Ids, i \in NavigateIndexInputs :
        LET r == navigateToQuestion(attempts, id, i, now)
        IN /\ attempts[id].status # "in_progress"
              => /\ r.out = Err("navigate", id, "ValidationError",
                                "Cannot navigate in inactive attempt")
                 /\ r.store = attempts
           /\ r.out.kind = "ok"
              => /\ attempts[id].status = "in_progress"
                 /\ r.store = [attempts EXCEPT ![id] =
                                  [attempts[id] EXCEPT !.currentQuestionIndex = i,
                                                       !.lastActiveAt = now]]

\* a Navigate has been rejected on an attempt StartAttempt just created
C10_Witness ==
    /\ last.op = "navigate"
    /\ last.message = "Cannot navigate in inactive attempt"
    /\ last.id \in Ids
    /\ attempts[last.id].status = "started"

----------------------------------------------------------------------------
(* QuizResultService.submitQuiz: grading a submitted answer set.  What the   *)
(* call passes on to the statistics updates and to the notification is kept  *)
(* in the outcome as `reported`.                                             *)

\* Math.max(0, x)
AtLeastZero(x) == IF x < 0 THEN 0 ELSE x

\* Math.round((x / y) * 100) for x >= 0 and y > 0: halves round up
RoundPercent(x, y) == (200 * x + y) \div (2 * y)

RECURSIVE SumOf(_, _)
\* reduce((total, e) => total + f[e]) over the first n entries
SumOf(f, n) == IF n = 0 THEN 0 ELSE SumOf(f, n - 1) + f[n]

\* the selectedAnswer stored for a skipped question
Skipped == -1

\* data.answers[questionId]: the submitted option, if any.  The map is keyed
\* by index.toString(), written here as the index itself.
Submitted(answers, index) == index \in DOMAIN answers

\* userAnswer === question.correctAnswer
IsCorrect(question, answers, index) ==
    Submitted(answers, index) /\ answers[index] = question.correctAnswer

\* isCorrect ? question.points : quiz.negativeMarking ? -quiz.negativeMarkingValue : 0
PointsEarned(content, question, answers, index) ==
    IF IsCorrect(question, answers, index) THEN question.points
    ELSE IF content.negativeMarking THEN 0 - content.negativeMarkingValue
    ELSE 0

\* userAnswer || -1: undefined and 0 are both falsy
SelectedOrSkipped(answers, index) ==
    IF Submitted(answers, index) /\ answers[index] # 0 THEN answers[index] ELSE Skipped

\* the entry pushed for question k of the quiz (index k - 1)
QuizAnswer(content, answers, k) ==
    [questionId |-> k - 1,
     selectedAnswer |-> SelectedOrSkipped(answers, k - 1),
     isCorrect |-> IsCorrect(content.questions[k], answers, k - 1),
     timeSpent |-> 0,
     pointsEarned |-> AtLeastZero(PointsEarned(content, content.questions[k], answers, k - 1))]

\* quiz.totalPoints, kept by the quiz's pre-save hook as the sum of the points
TotalPoints(content) ==
    SumOf([k \in 1..Len(content.questions) |-> content.questions[k].points],
          Len(content.questions))

\* the document submitQuiz passes to this.create
BuildResult(content, userId, quizId, answers, startTime, endTime, attemptNumber) ==
    LET n == Len(content.questions)
        quizAnswers == [k \in 1..n |-> QuizAnswer(content, answers, k)]
        running == SumOf([k \in 1..n |->
                            PointsEarned(content, content.questions[k], answers, k - 1)], n)
        totalScore == AtLeastZero(running)
        maxScore == TotalPoints(content)
    IN [userId |-> userId,
        quizId |-> quizId,
        answers |-> quizAnswers,
        totalScore |-> totalScore,
        maxScore |-> maxScore,
        percentage |-> IF maxScore > 0 THEN RoundPercent(totalScore, maxScore) ELSE 0,
        totalTimeSpent |-> WholeSeconds(endTime - startTime),
        status |-> "completed",
        attemptNumber |-> attemptNumber,
        correctAnswersCount |-> Cardinality({k \in 1..n : quizAnswers[k].isCorrect}),
        incorrectAnswersCount |->
            Cardinality({k \in 1..n : ~quizAnswers[k].isCorrect
                                  /\ quizAnswers[k].selectedAnswer # Skipped}),
        skippedAnswersCount |->
            Cardinality({k \in 1..n : quizAnswers[k].selectedAnswer = Skipped})]

\* the validators of quizResultSchema and quizAnswerSchema (min / max), run
\* by document.save() in BaseService.create, which rethrows a failure as
\* DatabaseError
ResultValid(doc) ==
    /\ \A k \in 1..Len(doc.answers) :
          /\ doc.answers[k].selectedAnswer >= 0
          /\ doc.answers[k].timeSpent >= 0
          /\ doc.answers[k].pointsEarned >= 0
    /\ doc.totalScore >= 0
    /\ doc.maxScore >= 0
    /\ doc.percentage >= 0
    /\ doc.percentage <= 100
    /\ doc.totalTimeSpent >= 0
    /\ doc.attemptNumber >= 1

\* quizResultSchema.methods.calculateScore, run by the pre-save hook on a new document
calculateScore(doc) ==
    LET n == Len(doc.answers)
        totalScore == SumOf([k \in 1..n |-> doc.answers[k].pointsEarned], n)
    IN [doc EXCEPT
          !.totalScore = totalScore,
          !.percentage = IF doc.maxScore > 0 THEN RoundPercent(totalScore, doc.maxScore)
                         ELSE 0,
          !.correctAnswersCount = Cardinality({k \in 1..n : doc.answers[k].isCorrect}),
          !.incorrectAnswersCount = Cardinality({k \in 1..n : ~doc.answers[k].isCorrect})]

\* BaseService.count({userId, quizId}) on the results
CountResults(store, userId, quizId) ==
    Cardinality({k \in 1..Len(store) : store[k].userId = userId /\ store[k].quizId = quizId})

\* the ways a statistics write can fail: the user document is gone when
\* updateUserStats loads it, or quiz.save() throws in updateQuizStats
Faults == {"none", "userStats", "quizStats"}

\* Math.round(seconds / 60)
RoundMinutes(seconds) == (2 * seconds + 60) \div 120

\* the passingScore a quiz has by default
PassingScore == 60

\* UserService.updateUserStats(userId, {quizCompleted: true, score, timeSpent})
updateUserStats(st, userId, score, timeSpent, fault) ==
    IF fault = "userStats"
    THEN [stats |-> st, failed |-> TRUE]
    ELSE [stats |-> [st EXCEPT
                       !.user[userId].totalQuizzesTaken = @ + 1,
                       !.user[userId].scoreTotal = @ + score,
                       !.user[userId].totalTimeSpent = @ + timeSpent],
          failed |-> FALSE]

\* QuizResultService.updateQuizStats(quizId, score, timeSpent)
updateQuizStats(st, store, quizId, score, timeSpent, fault) ==
    IF fault = "quizStats"
    THEN [stats |-> st, failed |-> TRUE]
    ELSE [stats |-> [st EXCEPT
                       !.quiz[quizId].totalAttempts = @ + 1,
                       !.quiz[quizId].completedAttempts = @ + 1,
                       !.quiz[quizId].scoreTotal = @ + score,
                       !.quiz[quizId].timeTotal = @ + timeSpent,
                       !.quiz[quizId].passedAttempts =
                           Cardinality({k \in 1..Len(store) :
                                           /\ store[k].quizId = quizId
                                           /\ store[k].percentage >= PassingScore})],
          failed |-> FALSE]

\* content: the questions and the negative-marking settings of the quiz
submitQuiz(store, st, content, userId, quizId, answers, startTime, endTime, attemptNumber, fault, t) ==
    LET quiz == QuizFindById(quizId)
        userAttempts == CountResults(store, userId, quizId)
        built == BuildResult(content, userId, quizId, answers, startTime, endTime,
                             attemptNumber)
        id == Len(store) + 1
        created == Append(store, calculateScore(built))
        user == updateUserStats(st, userId, built.percentage,
                                RoundMinutes(built.totalTimeSpent), fault)
        both == updateQuizStats(user.stats, created, quizId, built.percentage,
                                built.totalTimeSpent, fault)
        Fail(out) == [store |-> store, stats |-> st, out |-> out]
    IN IF quiz = NullQuiz
       THEN Fail(Err("submitQuiz", NoId, "NotFoundError", "Quiz not found"))
       ELSE IF ~isAvailableNow(quiz, t)
       THEN Fail(Err("submitQuiz", NoId, "ValidationError", "Quiz is not available"))
       ELSE IF ~canUserAccess(quiz, userId)
       THEN Fail(Err("submitQuiz", NoId, "AuthorizationError",
                     "You don't have access to this quiz"))
       ELSE IF ~canUserRetake(quiz, userAttempts)
       THEN Fail(Err("submitQuiz", NoId, "ValidationError",
                     "Maximum attempts reached for this quiz"))
       ELSE IF ~ResultValid(built)
       THEN Fail(Err("submitQuiz", NoId, "DatabaseError", "Failed to create QuizResult"))
       ELSE IF user.failed
       THEN [store |-> created, stats |-> st,
             out |-> Err("submitQuiz", id, "NotFoundError", "User not found")]
       ELSE IF both.failed
       THEN [store |-> created, stats |-> user.stats,
             out |-> Err("submitQuiz", id, "MongooseError", "Quiz save failed")]
       ELSE [store |-> created, stats |-> both.stats,
             out |-> [op |-> "submitQuiz", id |-> id, kind |-> "ok", message |-> "",
                      reported |-> [totalScore |-> built.totalScore,
                                    maxScore |-> built.maxScore,
                                    percentage |-> built.percentage]]]

\* the inputs: question lists of the quiz's size, negative-marking settings,
\* answer sets (an option per question, or none)
GradePoints == {2, 5}
CorrectOptions == {0, 1}
Penalties == {1, 7}

QuizContents(quizId) ==
    LET n == IF quizId \in DOMAIN Quizzes THEN Quizzes[quizId].questions ELSE 1
    IN {[questions |-> qs, negativeMarking |-> nm[1], negativeMarkingValue |-> nm[2]] :
           qs \in [1..n -> [correctAnswer : CorrectOptions, points : GradePoints]],
           nm \in {<<FALSE, 0>>} \cup {<<TRUE, v>> : v \in Penalties}}

AnswerSets(content) ==
    UNION {[idx -> AnswerInputs] : idx \in SUBSET (0..(Len(content.questions) - 1))}

\* the time a quiz takes, in milliseconds
TimeTaken == 1500

\* the outcome of a SubmitQuiz call together with what the call was given,
\* and whether the call wrote a result
GradeCall(out, userId, quizId, content, answers, fault, written) ==
    IF out.kind = "ok"
    THEN [op |-> out.op, id |-> out.id, kind |-> out.kind, message |-> out.message,
          reported |-> out.reported,
          userId |-> userId, quizId |-> quizId, content |-> content, answers |-> answers,
          fault |-> fault, written |-> written]
    ELSE [op |-> out.op, id |-> out.id, kind |-> out.kind, message |-> out.message,
          userId |-> userId, quizId |-> quizId, content |-> content, answers |-> answers,
          fault |-> fault, written |-> written]

SubmitQuiz(userId, quizId, content, answers, fault) ==
    LET r == submitQuiz(results, stats, content, userId, quizId, answers, now,
                        now + TimeTaken, 1, fault, now)
    IN /\ results' = r.store
       /\ stats' = r.stats
       /\ last' = GradeCall(r.out, userId, quizId, content, answers, fault,
                            r.store # results)
       /\ UNCHANGED <<attempts, nextId, now, ticks, procs>>

\* calls are followed up to the first failure or the last result the bound allows
NextGrade ==
    /\ Len(results) < MaxResults
    /\ last.kind = "ok"
    /\ \E u \in Users, q \in QuizIdInputs, fault \in Faults :
          \E content \in QuizContents(q) :
              \E answers \in AnswerSets(content) : SubmitQuiz(u, q, content, answers, fault)

SpecGrade == Init /\ [][NextGrade]_vars

\* the points of the questions answered with their correct option
CorrectPoints(content, answers) ==
    SumOf([k \in 1..Len(content.questions) |->
              IF IsCorrect(content.questions[k], answers, k - 1)
              THEN content.questions[k].points ELSE 0],
          Len(content.questions))

\* the last call was a SubmitQuiz that passed the checks on the quiz
PassedQuizChecks ==
    /\ last.op = "submitQuiz"
    /\ last.kind \in {"ok", "DatabaseError"}

\* C17: without negative marking, for every quiz and every answer set
\* SubmitQuiz succeeds and the stored result's total is the sum of the points
\* of the correctly answered questions, its percentage
\* round(total / maxScore x 100), or 0 when maxScore is 0.
C17_ScoreWithoutNegativeMarking ==
    (PassedQuizChecks /\ ~last.content.negativeMarking)
    => LET total == CorrectPoints(last.content, last.answers)
           maxScore == TotalPoints(last.content)
       IN /\ last.kind = "ok"
          /\ results[last.id].totalScore = total
          /\ results[last.id].percentage
               = (IF maxScore > 0 THEN RoundPercent(total, maxScore) ELSE 0)

\* C18: with negative marking, a wrong or skipped question adds 0 to the
\* total SubmitQuiz computes, so that total is the sum of the points of the
\* correctly answered questions and never below 0, for every penalty.
C18_NegativeMarkingAddsZero ==
    (last.op = "submitQuiz" /\ last.kind = "ok" /\ last.content.negativeMarking)
    => /\ last.reported.totalScore = CorrectPoints(last.content, last.answers)
       /\ last.reported.totalScore >= 0

\* C19: in the result SubmitQuiz builds, a question is recorded as skipped
\* (-1) exactly when no answer was submitted for it and a submitted option,
\* option 0 included, is recorded as itself; so the correct, incorrect and
\* skipped counts add up to the number of questions.
C19_SkippedOnlyWhenAbsent ==
    PassedQuizChecks
    => LET built == BuildResult(last.content, last.userId, last.quizId, last.answers,
                                now, now + TimeTaken, 1)
       IN /\ \A k \in 1..Len(built.answers) :
                /\ built.answers[k].selectedAnswer = Skipped
                     <=> ~Submitted(last.answers, k - 1)
                /\ Submitted(last.answers, k - 1)
                     => built.answers[k].selectedAnswer = last.answers[k - 1]
          /\ built.correctAnswersCount + built.incorrectAnswersCount
               + built.skippedAnswersCount = Len(last.content.questions)

\* C23: if updating the user statistics or the quiz statistics fails during
\* SubmitQuiz, the result that was written stays stored and SubmitQuiz still
\* returns that result successfully instead of an error.
C23_StatisticsBestEffort ==
    (last.op = "submitQuiz" /\ last.written /\ last.fault # "none")
    => /\ results # <<>>
       /\ last.kind = "ok"

\* C30: for every successful SubmitQuiz, with or without negative marking,
\* the total score and percentage stored in the created result, after its
\* on-save recalculation, equal the ones SubmitQuiz computed and passed to the
\* statistics updates and the completion notification.
C30_StoredEqualsReported ==
    (last.op = "submitQuiz" /\ last.kind = "ok")
    => /\ results[last.id].totalScore = last.reported.totalScore
       /\ results[last.id].percentage = last.reported.percentage

----------------------------------------------------------------------------
(* Pause and Resume *)

\* the fields Pause and Resume must leave alone
Progress(doc) ==
    <<doc.currentAnswers, doc.answeredQuestions, doc.currentQuestionIndex>>

\* C11: on a quiz that allows pausing, Pause followed by Resume takes an
\* in_progress attempt back to in_progress with pausedAt cleared and the
\* answers, the answered list and the current question index as they were;
\* Pause from a status other than in_progress and Resume from a status other
\* than paused leave the status as it is.
C11_PauseThenResume ==
    \A id \in Ids :
        LET p == pauseAttempt(attempts, id, now)
            r == resumeAttempt(p.store, id, now)
            direct == resumeAttempt(attempts, id, now)
        IN /\ (attempts[id].status = "in_progress"
               /\ Quizzes[attempts[id].quizId].allowPause)
              => /\ p.out.kind = "ok"
                 /\ p.store[id].status = "paused"
                 /\ r.out.kind = "ok"
                 /\ r.store[id].status = "in_progress"
                 /\ r.store[id].pausedAt = NoDate
                 /\ Progress(r.store[id]) = Progress(attempts[id])
           /\ attempts[id].status = "paused"
              => /\ direct.out.kind = "ok"
                 /\ direct.store[id].status = "in_progress"
                 /\ direct.store[id].pausedAt = NoDate
                 /\ Progress(direct.store[id]) = Progress(attempts[id])
           /\ attempts[id].status # "in_progress"
              => p.store[id].status = attempts[id].status
           /\ attempts[id].status # "paused"
              => direct.store[id].status = attempts[id].status

\* an attempt with a saved answer has been paused by a successful Pause
C11_Witness ==
    /\ last.op = "pause"
    /\ last.kind = "ok"
    /\ last.id \in Ids
    /\ attempts[last.id].status = "paused"
    /\ attempts[last.id].pausedAt # NoDate
    /\ attempts[last.id].answeredQuestions # <<>>

\* C12: on a quiz whose allowPause flag is false, Pause is rejected in every
\* attempt status and changes nothing, so no attempt of such a quiz is ever
\* paused.
C12_PauseRejectedWhenNotAllowed ==
    \A id \in Ids :
        ~Quizzes[attempts[id].quizId].allowPause
        => /\ pauseAttempt(attempts, id, now)
                = [store |-> attempts,
                   out |-> Err("pause", id, "ValidationError",
                               "Pausing is not allowed for this quiz")]
           /\ attempts[id].status # "paused"

\* a Pause has been rejected on a running attempt of a quiz without pausing
C12_Witness ==
    /\ last.op = "pause"
    /\ last.message = "Pausing is not allowed for this quiz"
    /\ last.id \in Ids
    /\ attempts[last.id].status = "in_progress"
    /\ ~Quizzes[attempts[last.id].quizId].allowPause

----------------------------------------------------------------------------
(* The anomaly log *)

\* the tab_switch entries of a log
TabSwitches(log) == Cardinality({k \in 1..Len(log) : log[k].type = "tab_switch"})

\* C16: RecordSuspiciousActivity succeeds in every attempt status, appends
\* one entry to the log and leaves the earlier entries and the status alone;
\* it adds 1 to the tab-switch counter for type tab_switch and nothing for
\* any other type, so the counter equals the number of tab_switch entries.
C16_RecordActivityInEveryStatus ==
    \A id \in Ids :
        /\ attempts[id].tabSwitchCount = TabSwitches(attempts[id].suspiciousActivity)
        /\ \A type \in ActivityTypes :
              LET r == recordSuspiciousActivity(attempts, id, type, now)
                  old == attempts[id]
                  new == r.store[id]
              IN /\ r.out.kind = "ok"
                 /\ Len(new.suspiciousActivity) = Len(old.suspiciousActivity) + 1
                 /\ SubSeq(new.suspiciousActivity, 1, Len(old.suspiciousActivity))
                      = old.suspiciousActivity
                 /\ new.suspiciousActivity[Len(new.suspiciousActivity)].type = type
                 /\ new.status = old.status
                 /\ new.tabSwitchCount
                      = old.tabSwitchCount + (IF type = "tab_switch" THEN 1 ELSE 0)

----------------------------------------------------------------------------
(* The expiry sweep *)

\* the clock values around the moment an attempt's time budget runs out:
\* one second before, the moment itself, one millisecond and one second after
ProbeTimes(doc) ==
    {doc.startedAt + TimeBudget(Quizzes[doc.quizId]) * 1000 + d : d \in {-1000, 0, 1, 1000}}

\* C13: the expiry sweep moves an attempt to time_expired exactly when its
\* status is started or in_progress and the time since startedAt is strictly
\* greater than its time budget; a completed attempt is left as it is.
C13_SweepExpiresExactlyOverdue ==
    \A id \in Ids, reading \in PathReadings :
        \A t \in ProbeTimes(attempts[id]) :
            LET r == expireOverdueAttempts(attempts, t, reading)
                budgetMs == TimeBudget(Quizzes[attempts[id].quizId]) * 1000
            IN /\ (r.store[id] # attempts[id] /\ r.store[id].status = "time_expired")
                  <=> (attempts[id].status \in {"started", "in_progress"}
                       /\ t - attempts[id].startedAt > budgetMs)
               /\ attempts[id].status = "completed" => r.store[id] = attempts[id]

----------------------------------------------------------------------------
(* The expiry sweep in flight between its two storage calls, the aggregation *)
(* and the bulk update, with client calls running in between                 *)

\* the request slot the sweep runs in
Sweeper == "p1"

\* QuizAttempt.aggregate([...]) and overdueAttempts.map(_id)
SelectOverdue ==
    /\ procs[Sweeper].pc = "idle"
    /\ \E reading \in PathReadings :
          /\ ~SweepFails(attempts, reading)
          /\ procs' = [procs EXCEPT ![Sweeper] =
                         [pc |-> "selected", overdueIds |-> Overdue(attempts, now)]]
    /\ UNCHANGED <<attempts, nextId, now, ticks, last, results, stats>>

\* if (overdueIds.length > 0) QuizAttempt.updateMany({_id: {$in: overdueIds}}, ...)
UpdateOverdue ==
    /\ procs[Sweeper].pc = "selected"
    /\ attempts' = IF procs[Sweeper].overdueIds # {}
                   THEN UpdateMany(attempts, procs[Sweeper].overdueIds, now)
                   ELSE attempts
    /\ procs' = [procs EXCEPT ![Sweeper] = Idle]
    /\ UNCHANGED <<nextId, now, ticks, last, results, stats>>

NextSweepRace ==
    \/ \E q \in {"q1", "q2"} : StartAttempt("u1", q, MaxDetailIds)
    \/ \E id \in DetailIdInputs, i \in SaveIndexInputs : SaveAnswer(id, i, 1, 3)
    \/ \E id \in DetailIdInputs : Navigate(id, 1)
    \/ \E id \in DetailIdInputs : SubmitAttempt(id)
    \/ \E d \in DaySteps : Tick(d)
    \/ SelectOverdue
    \/ UpdateOverdue

SpecSweepRace == Init /\ [][NextSweepRace]_vars

\* C14: when SubmitAttempt completes an attempt between the sweep's selection
\* and its bulk update, the update leaves that attempt alone: a completed
\* attempt stays completed in every step.
C14_SweepUpdateSparesCompleted ==
    [][\A id \in Ids :
          attempts[id].status = "completed"
          => (id \in DOMAIN attempts' /\ attempts'[id].status = "completed")]_vars

----------------------------------------------------------------------------
(* The sweep left running: the client acts on one attempt of a quiz with a   *)
(* 60-second limit before the clock advances and not afterwards, and the     *)
(* expiry sweep runs again and again                                         *)

\* the client has not gone away yet
ClientActive == ticks = 0

NextExpiry ==
    \/ ClientActive /\ StartAttempt("u1", "q1", MaxDetailIds)
    \/ ClientActive /\ \E id \in DetailIdInputs, i \in SaveIndexInputs : SaveAnswer(id, i, 1, 3)
    \/ ClientActive /\ \E id \in DetailIdInputs : Navigate(id, 1)
    \/ ClientActive /\ \E id \in DetailIdInputs : Pause(id)
    \/ ClientActive /\ \E id \in DetailIdInputs : Resume(id)
    \/ ClientActive /\ \E id \in DetailIdInputs : SubmitAttempt(id)
    \/ \E d \in DaySteps : Tick(d)
    \/ ExpirySweep

\* the scheduler keeps running the sweep
SpecExpiry == Init /\ [][NextExpiry]_vars /\ WF_vars(ExpirySweep)

\* the attempt is active and older than its time budget
OverBudget(id) ==
    /\ id \in Ids
    /\ attempts[id].status \in NonTerminal
    /\ now - attempts[id].startedAt > TimeBudget(Quizzes[attempts[id].quizId]) * 1000

IsExpired(id) == id \in Ids /\ attempts[id].status \in {"expired", "time_expired"}

\* C15: with the sweep running again and again and the client gone, every
\* attempt in started, in_progress or paused that is older than its time
\* budget eventually becomes expired or time_expired.
C15_OverdueEventuallyExpired ==
    \A id \in DetailIdInputs : OverBudget(id) ~> IsExpired(id)

----------------------------------------------------------------------------
(* Two StartAttempt calls in flight, interleaved between the storage calls   *)
(* of startQuizAttempt: the count, the lookup of an incomplete attempt, and  *)
(* the write (save of the found attempt, or create)                          *)

Done(out) == [pc |-> "done", out |-> out]

\* the quiz is loaded and checked, the attempts of the user are counted
CountAttempts(p, userId, quizId) ==
    LET quiz == QuizFindById(quizId)
        existingAttempts == Count(attempts, userId, quizId)
    IN /\ procs[p].pc = "idle"
       /\ procs' = [procs EXCEPT ![p] =
            IF quiz = NullQuiz
            THEN Done(Err("start", NoId, "NotFoundError", "Quiz not found"))
            ELSE IF ~isAvailableNow(quiz, now)
            THEN Done(Err("start", NoId, "ValidationError", "Quiz is not available"))
            ELSE IF ~canUserAccess(quiz, userId)
            THEN Done(Err("start", NoId, "AuthorizationError",
                          "You don't have access to this quiz"))
            ELSE IF ~canUserRetake(quiz, existingAttempts)
            THEN Done(Err("start", NoId, "ValidationError",
                          "Maximum attempts reached for this quiz"))
            ELSE [pc |-> "find", userId |-> userId, quizId |-> quizId,
                  existingAttempts |-> existingAttempts]]
       /\ UNCHANGED <<attempts, nextId, now, ticks, last, results, stats>>

\* the incomplete attempt of the user is looked up
FindIncomplete(p) ==
    /\ procs[p].pc = "find"
    /\ LET incompleteAttempt ==
               FindOne(IncompleteIds(attempts, procs[p].userId, procs[p].quizId))
       IN procs' = [procs EXCEPT ![p] =
            IF incompleteAttempt # NoId
            THEN [pc |-> "resume", userId |-> procs[p].userId, quizId |-> procs[p].quizId,
                  id |-> incompleteAttempt, loaded |-> attempts[incompleteAttempt]]
            ELSE [pc |-> "create", userId |-> procs[p].userId, quizId |-> procs[p].quizId,
                  existingAttempts |-> procs[p].existingAttempts]]
    /\ UNCHANGED <<attempts, nextId, now, ticks, last, results, stats>>

\* the attempt found is saved as in_progress and returned
ResumeIncomplete(p) ==
    /\ procs[p].pc = "resume"
    /\ LET r == SaveFrom(attempts, "start", procs[p].id, procs[p].loaded,
                         [procs[p].loaded EXCEPT !.status = "in_progress",
                                                 !.lastActiveAt = now], now)
       IN /\ attempts' = r.store
          /\ procs' = [procs EXCEPT ![p] =
                [pc |-> "done", out |-> r.out,
                 userId |-> procs[p].userId, quizId |-> procs[p].quizId]]
    /\ UNCHANGED <<nextId, now, ticks, last, results, stats>>

\* no attempt was found: a new one is created and returned
CreateAttempt(p) ==
    /\ procs[p].pc = "create"
    /\ attempts' = Insert(attempts, nextId,
                          NewAttempt(procs[p].userId, procs[p].quizId,
                                     QuizFindById(procs[p].quizId),
                                     procs[p].existingAttempts, now))
    /\ nextId' = nextId + 1
    /\ procs' = [procs EXCEPT ![p] =
          [pc |-> "done", out |-> Ok("start", nextId),
           userId |-> procs[p].userId, quizId |-> procs[p].quizId]]
    /\ UNCHANGED <<now, ticks, last, results, stats>>

NextStartRace ==
    \/ \E p \in Procs, u \in Users, q \in QuizIdInputs : CountAttempts(p, u, q)
    \/ \E p \in Procs : FindIncomplete(p)
    \/ \E p \in Procs : ResumeIncomplete(p)
    \/ \E p \in Procs : CreateAttempt(p)

SpecStartRace == Init /\ [][NextStartRace]_vars

\* a call that returned an attempt of the user on the quiz
Returned(p, userId, quizId) ==
    /\ procs[p].pc = "done"
    /\ procs[p].out.kind = "ok"
    /\ procs[p].userId = userId
    /\ procs[p].quizId = quizId

\* C3: StartAttempt is an atomic find-or-create: however two calls of one user
\* on one quiz interleave between their storage calls, the user never holds
\* two non-terminal attempts of the quiz and both calls return the same id.
C3_StartAttemptFindOrCreate ==
    \A u \in Users, q \in DOMAIN Quizzes :
        /\ Cardinality(ActiveOf(u, q)) < 2
        /\ \A p1, p2 \in Procs :
              (Returned(p1, u, q) /\ Returned(p2, u, q))
              => procs[p1].out.id = procs[p2].out.id

----------------------------------------------------------------------------
(* Two SaveAnswer calls on one attempt in flight, interleaved between the    *)
(* read of the document, its change in memory, and the write                 *)

\* findByIdOrThrow
LoadForAnswer(p, id, questionIndex, answer) ==
    /\ procs[p].pc = "idle"
    /\ procs' = [procs EXCEPT ![p] =
          IF id \notin Ids
          THEN Done(Err("saveAnswer", id, "NotFoundError", "QuizAttempt not found"))
          ELSE [pc |-> "loaded", id |-> id, questionIndex |-> questionIndex,
                answer |-> answer, loaded |-> attempts[id]]]
    /\ UNCHANGED <<attempts, nextId, now, ticks, last, results, stats>>

\* the status check and the change of the loaded document in memory
ModifyAnswer(p) ==
    /\ procs[p].pc = "loaded"
    /\ procs' = [procs EXCEPT ![p] =
          IF InactiveForAnswer(procs[p].loaded.status)
          THEN Done(Err("saveAnswer", procs[p].id, "ValidationError",
                        "Cannot save answer for inactive attempt"))
          ELSE [pc |-> "modified", id |-> procs[p].id,
                questionIndex |-> procs[p].questionIndex,
                loaded |-> procs[p].loaded,
                doc |-> AnswerInMemory(procs[p].loaded, procs[p].questionIndex,
                                       procs[p].answer, 3, now)]]
    /\ UNCHANGED <<attempts, nextId, now, ticks, last, results, stats>>

\* attempt.save()
WriteAnswer(p) ==
    /\ procs[p].pc = "modified"
    /\ LET r == SaveFrom(attempts, "saveAnswer", procs[p].id, procs[p].loaded,
                         procs[p].doc, now)
       IN /\ attempts' = r.store
          /\ procs' = [procs EXCEPT ![p] =
                [pc |-> "done", out |-> r.out, questionIndex |-> procs[p].questionIndex]]
    /\ UNCHANGED <<nextId, now, ticks, last, results, stats>>

NextSaveRace ==
    \/ \E q \in {"q1", "q2"} : StartAttempt("u1", q, MaxDetailIds)
    \/ \E p \in Procs, id \in DetailIdInputs, i \in SaveIndexInputs, a \in AnswerInputs :
          LoadForAnswer(p, id, i, a)
    \/ \E p \in Procs : ModifyAnswer(p)
    \/ \E p \in Procs : WriteAnswer(p)
    \/ \E id \in DetailIdInputs : Pause(id)

SpecSaveRace == Init /\ [][NextSaveRace]_vars

\* C8: no answer is lost: once a SaveAnswer call has succeeded, the stored
\* attempt holds an answer for its question index, whatever other SaveAnswer
\* calls on other indices ran between its read and its write.
C8_NoLostAnswer ==
    \A p \in Procs :
        (procs[p].pc = "done" /\ procs[p].out.kind = "ok")
        => /\ HasAnswer(attempts[procs[p].out.id], procs[p].questionIndex)
           /\ Includes(attempts[procs[p].out.id].answeredQuestions, procs[p].questionIndex)

----------------------------------------------------------------------------
(* Retake policy *)

\* the number of attempts the retake policy of a quiz allows one user
AttemptLimit(quiz) == IF quiz.allowRetake THEN quiz.maxAttempts ELSE 1

\* a start of userId on quizId gets past the quiz, availability and access checks
PassesQuizChecks(userId, quizId) ==
    LET quiz == QuizFindById(quizId)
    IN quiz # NullQuiz /\ isAvailableNow(quiz, now) /\ canUserAccess(quiz, userId)

\* C20: StartAttempt creates a new attempt only when the user's attempt count
\* for the quiz is below maxAttempts (is 0 when allowRetake is false), and past
\* the other checks it fails with "Maximum attempts reached for this quiz"
\* otherwise, leaving the store alone; with operations running atomically the
\* number of stored attempts of one user for one quiz never exceeds maxAttempts
\* (never exceeds 1 when allowRetake is false).
C20_RetakePolicy ==
    /\ \A u \in Users, q \in DOMAIN Quizzes :
          Count(attempts, u, q) <= AttemptLimit(Quizzes[q])
    /\ \A u \in Users, q \in QuizIdInputs :
          LET r == startQuizAttempt(attempts, nextId, u, q, now)
              existing == Count(attempts, u, q)
              limit == AttemptLimit(QuizFindById(q))
          IN /\ DOMAIN r.store # DOMAIN attempts => existing < limit
             /\ (PassesQuizChecks(u, q) /\ existing >= limit)
                => /\ r.out.kind = "ValidationError"
                   /\ r.out.message = "Maximum attempts reached for this quiz"
                   /\ r.store = attempts

\* a user has used up a quiz that allows no retake, the attempt is over, the
\* store has room for another document, and the next start is refused
C20_Witness ==
    \E u \in Users, q \in DOMAIN Quizzes :
        /\ ~Quizzes[q].allowRetake
        /\ Quizzes[q].maxAttempts > 1
        /\ Count(attempts, u, q) = 1
        /\ IncompleteIds(attempts, u, q) = {}
        /\ nextId <= MaxIds
        /\ PassesQuizChecks(u, q)
        /\ startQuizAttempt(attempts, nextId, u, q, now).out.message
              = "Maximum attempts reached for this quiz"

----------------------------------------------------------------------------
(* The attempt a start creates *)

\* the document a start of userId on quizId creates now, when it creates one
CreatesAttempt(userId, quizId) ==
    LET r == startQuizAttempt(attempts, nextId, userId, quizId, now)
    IN Created(r) /\ nextId \in DOMAIN r.store

\* C21: when StartAttempt creates a new attempt, the record has status started,
\* attempt number = the user's attempt count for the quiz + 1, empty answered,
\* flagged and skipped sets, current question index 0, and remaining time equal
\* to timePerQuestion x question count if timePerQuestion is configured and
\* timeLimit x 60 otherwise.
C21_NewAttemptFields ==
    \A u \in Users, q \in QuizIdInputs :
        CreatesAttempt(u, q)
        => LET created == startQuizAttempt(attempts, nextId, u, q, now).store[nextId]
               quiz == Quizzes[q]
           IN /\ created.status = "started"
              /\ created.attemptNumber = Count(attempts, u, q) + 1
              /\ created.answeredQuestions = <<>>
              /\ created.flaggedQuestions = <<>>
              /\ created.skippedQuestions = <<>>
              /\ created.currentQuestionIndex = 0
              /\ created.remainingTime =
                    IF quiz.timePerQuestion > 0
                    THEN quiz.timePerQuestion * quiz.questions
                    ELSE quiz.timeLimit * 60

\* a user was given a second attempt after a first one
C21_Witness ==
    \E i \in DOMAIN attempts :
        /\ attempts[i].status = "started"
        /\ attempts[i].attemptNumber = 2
        /\ attempts[i].remainingTime = Quizzes[attempts[i].quizId].timeLimit * 60

----------------------------------------------------------------------------
(* Failing calls *)

\* attempt ids a caller may pass; the last one names no stored attempt
CallIdInputs == 1..(MaxIds + 1)

\* question indices a caller may pass, in and out of range
CallIndexInputs == {-1, 0, 1, 2}

\* the results of every StartAttempt, SaveAnswer, Navigate, Pause, Resume and
\* SubmitAttempt call that can be made now
CallResults ==
    {startQuizAttempt(attempts, nextId, u, q, now) : u \in Users, q \in QuizIdInputs}
    \cup {saveAnswerCall(attempts, id, k, 1, 3, now) :
             id \in CallIdInputs, k \in CallIndexInputs}
    \cup {navigateToQuestion(attempts, id, k, now) :
             id \in CallIdInputs, k \in CallIndexInputs}
    \cup {pauseAttempt(attempts, id, now) : id \in CallIdInputs}
    \cup {resumeAttempt(attempts, id, now) : id \in CallIdInputs}
    \cup {submitAttempt(attempts, id, now) : id \in CallIdInputs}

\* C22: whenever StartAttempt, SaveAnswer, Navigate, Pause, Resume or
\* SubmitAttempt returns an error, the attempt store is exactly as it was before
\* the call: no attempt is created and no field of any attempt is changed.
C22_FailingCallChangesNothing ==
    \A r \in CallResults : r.out.kind # "ok" => r.store = attempts

\* an attempt in progress refuses an index out of range, an expired attempt
\* refuses a resume, and a call on a missing attempt fails
C22_Witness ==
    /\ \E id \in DOMAIN attempts :
          /\ attempts[id].status = "in_progress"
          /\ navigateToQuestion(attempts, id, 2, now).out.message
                = "Invalid question index"
    /\ \E id \in DOMAIN attempts :
          /\ attempts[id].status = "time_expired"
          /\ resumeAttempt(attempts, id, now).out.kind = "MongooseValidationError"
    /\ \E id \in CallIdInputs :
          submitAttempt(attempts, id, now).out.kind = "NotFoundError"

----------------------------------------------------------------------------
(* What a submit leaves behind *)

\* C24: a successful SubmitAttempt leaves the attempt with status completed,
\* completed-at set to the submit time, and time-spent equal to the whole
\* seconds elapsed since started-at, whatever time the attempt spent paused and
\* whatever the heartbeats wrote before.
C24_SubmitStampsCompletion ==
    (last.op = "submit" /\ last.kind = "ok")
    => /\ attempts[last.id].status = "completed"
       /\ attempts[last.id].completedAt = now
       /\ attempts[last.id].timeSpent = WholeSeconds(now - attempts[last.id].startedAt)

\* C27: in every reachable state an attempt has paused-at set if and only if
\* its status is paused: every transition out of paused (Resume, StartAttempt
\* reviving a paused attempt, SubmitAttempt on a paused attempt) clears it.
C27_PausedAtIffPaused ==
    \A id \in DOMAIN attempts :
        attempts[id].pausedAt # NoDate <=> attempts[id].status = "paused"

----------------------------------------------------------------------------
(* What the expiry sweep leaves alone *)

\* the attempt is past its time budget at time t
PastBudget(doc, t) ==
    LET quiz == Quizzes[doc.quizId]
        budget == IF quiz.timePerQuestion > 0
                  THEN quiz.timePerQuestion * quiz.questions
                  ELSE quiz.timeLimit * 60
    IN t - doc.startedAt > budget * 1000

\* C25: for every attempt it expires, the sweep changes only status and
\* last-active-at and leaves the answer map, the answered, flagged and skipped
\* sets, the current question index, time-spent and the anomaly log unchanged;
\* every attempt that is paused, terminal, or not overdue is left completely
\* unchanged.
C25_SweepFrame ==
    \A reading \in PathReadings, id \in Ids :
        \A t \in ProbeTimes(attempts[id]) \cup {now} :
            LET swept == expireOverdueAttempts(attempts, t, reading).store
                before == attempts[id]
            IN /\ DOMAIN swept = DOMAIN attempts
               /\ swept[id] # before
                  => /\ swept[id] = [before EXCEPT !.status = swept[id].status,
                                                   !.lastActiveAt = swept[id].lastActiveAt]
                     /\ swept[id].currentAnswers = before.currentAnswers
                     /\ swept[id].answeredQuestions = before.answeredQuestions
                     /\ swept[id].flaggedQuestions = before.flaggedQuestions
                     /\ swept[id].skippedQuestions = before.skippedQuestions
                     /\ swept[id].currentQuestionIndex = before.currentQuestionIndex
                     /\ swept[id].timeSpent = before.timeSpent
                     /\ swept[id].suspiciousActivity = before.suspiciousActivity
               /\ (before.status \notin {"started", "in_progress"} \/ ~PastBudget(before, t))
                  => swept[id] = before

\* the sweep has just expired an attempt that holds an answer, a flagged
\* question and a logged anomaly
C25_Witness ==
    /\ last.op = "expireOverdue"
    /\ last.kind = "ok"
    /\ \E id \in Ids :
          /\ attempts[id].status = "time_expired"
          /\ attempts[id].lastActiveAt = now
          /\ attempts[id].answeredQuestions # <<>>
          /\ attempts[id].flaggedQuestions # <<>>
          /\ attempts[id].suspiciousActivity # <<>>

----------------------------------------------------------------------------
(* The retention sweep *)

\* every status an attempt document can carry: the schema's values and the
\* one the expiry sweep writes
AllStatuses == StatusEnum \cup {"time_expired"}

\* the clock values around the end of an attempt's retention window
RetentionProbeTimes(doc) == {doc.startedAt + OneDayMs + d : d \in {-1, 0, 1}}

\* C26: the retention sweep deletes exactly the attempts whose status is
\* started or abandoned and whose start time is more than 24 hours in the
\* past; attempts in any other status, and started/abandoned attempts younger
\* than 24 hours, are never deleted by it, whatever their time budget.  The
\* filter is probed on every stored attempt under each status.
C26_RetentionDeletesExactlyOld ==
    \A id \in Ids, status \in AllStatuses :
        \A t \in RetentionProbeTimes(attempts[id]) \cup {now} :
            LET store == [attempts EXCEPT ![id].status = status]
                swept == cleanAbandonedAttempts(store, t).store
            IN /\ id \notin DOMAIN swept
                  <=> (status \in {"started", "abandoned"}
                       /\ t - store[id].startedAt > 24 * 60 * 60 * 1000)
               /\ \A j \in DOMAIN swept : swept[j] = store[j]
               /\ DOMAIN swept \subseteq DOMAIN store

\* the retention sweep has deleted an attempt and kept one as old that a
\* client had moved on to in_progress
C26_Witness ==
    /\ \E id \in 1..(nextId - 1) : id \notin DOMAIN attempts
    /\ \E id \in DOMAIN attempts :
          /\ attempts[id].status = "in_progress"
          /\ now - attempts[id].startedAt > OneDayMs

----------------------------------------------------------------------------
(* The answered list and the progress *)

\* Math.round((answeredQuestions.length / totalQuestions) * 100)
calculateProgress(doc) == RoundPercent(Len(doc.answeredQuestions), doc.totalQuestions)

\* C28: in every reachable state the answered list of an attempt holds only
\* distinct indices in [0, totalQuestions), so the number of answered questions
\* never exceeds totalQuestions and the progress percentage is always between
\* 0 and 100, for every question index (>= 0) passed to SaveAnswer.
C28_AnsweredWithinQuiz ==
    \A id \in DOMAIN attempts :
        LET doc == attempts[id]
        IN /\ \A k \in 1..Len(doc.answeredQuestions) :
                 /\ doc.answeredQuestions[k] \in 0..(doc.totalQuestions - 1)
                 /\ Occurrences(doc.answeredQuestions, doc.answeredQuestions[k]) = 1
           /\ Len(doc.answeredQuestions) <= doc.totalQuestions
           /\ calculateProgress(doc) \in 0..100

----------------------------------------------------------------------------
(* Attempt numbers *)

\* C29: the attempt numbers of the stored attempts of one user for one quiz
\* are pairwise distinct and the non-terminal attempt, if any, carries the
\* highest number; with two interleaved StartAttempt calls the numbers are
\* still pairwise distinct.
C29_AttemptNumbersDistinct ==
    \A i, j \in DOMAIN attempts :
        (i # j /\ attempts[i].userId = attempts[j].userId
               /\ attempts[i].quizId = attempts[j].quizId)
        => /\ attempts[i].attemptNumber # attempts[j].attemptNumber
           /\ attempts[i].status \in Incomplete
              => attempts[i].attemptNumber > attempts[j].attemptNumber

====
